---- MODULE Spec2Model ----
(***************************************************************************)
(* A model of the gapalytics web client: the password-based encryption     *)
(* helper (src/lib/crypto.ts), the useAPIKeys hook and the components that *)
(* call it, the two AuthProviders, the AuthCallback route and the          *)
(* deploy-amplify.sh script.                                               *)
(*                                                                         *)
(* Strings that pass through an encoder are sequences of UTF-16 code       *)
(* units; byte arrays are sequences over 0..255.  Messages and names that  *)
(* are only stored and compared are TLA+ strings.                          *)
(***************************************************************************)
EXTENDS Integers, Sequences, FiniteSets, TLC

VARIABLES
    \* ---- crypto.ts exercised on its own
    cData,        \* plaintext handed to encryptData
    cPw,          \* password handed to encryptData
    cRecord,      \* the EncryptedData under test (NoRecord before encryption)
    cTamper,      \* how cRecord was altered after encryptData returned it
    cDecPw,       \* password handed to the last decryptData call
    cResult,      \* outcome of the last decryptData call
    cEncKey,      \* the key encryptData derived for cRecord
    cDecKey,      \* the key the last decryptData call derived (NoKey if none)
    \* ---- useAPIKeys, APIKeyManager and MultiAgentResearch
    user,             \* useAuth().user: a user id or NoUser
    subtleAvailable,  \* whether crypto.subtle exists (a secure context)
    localStorage,     \* slot -> what is stored under it
    apiKeys,          \* per hook instance: the apiKeys state
    queries,          \* per hook instance: the queries state
    pendingAdds,      \* addAPIKey calls awaiting encryptData
    lastAdd,          \* what the last finished addAPIKey call returned
    nextId,           \* number of addAPIKey calls made so far
    clock,            \* number of Date readings so far
    toast,            \* title of the last toast shown
    selectedAgents,   \* MultiAgentResearch: selectedAgents
    showPasswordInput,\* MultiAgentResearch: showPasswordInput
    hs,               \* MultiAgentResearch.handleSubmit in progress
    \* ---- the AuthProviders and the AuthCallback route
    provider,     \* which AuthProvider wraps the app: "useAuth" or "Index"
    path,         \* the current route, or "external" (the OAuth consent page)
    call,         \* the signUp / signIn / signInWithGoogle call in progress
    authToast,    \* title of the last toast an AuthProvider showed
    cb,           \* AuthCallback: handleAuthCallback's progress
    status,       \* AuthCallback: status
    errorMessage, \* AuthCallback: errorMessage
    homeTimer,    \* AuthCallback: the setTimeout(() => navigate('/')) is pending
    \* ---- deploy-amplify.sh and the machine it runs on
    awsInstalled, \* `command -v aws` succeeds
    awsLoggedIn,  \* `aws sts get-caller-identity` succeeds
    envFile,      \* .env is a regular file
    envNames,     \* the variable names that occur in .env
    distDir,      \* dist is a directory
    shPc,         \* the script's next command
    shStatus,     \* $? after npm run build
    exitStatus,   \* the script's exit status, once shPc = "exited"
    stdout,       \* the headline of each message block echoed so far
    checked       \* the checks performed so far, in order

cryptoVars == <<cData, cPw, cRecord, cTamper, cDecPw, cResult, cEncKey, cDecKey>>

keyVars == <<user, subtleAvailable, localStorage, apiKeys, queries, pendingAdds,
             lastAdd, nextId, clock, toast, selectedAgents,
             showPasswordInput, hs>>

authVars == <<provider, path, call, authToast, cb, status, errorMessage, homeTimer>>

deployVars == <<awsInstalled, awsLoggedIn, envFile, envNames, distDir,
                shPc, shStatus, exitStatus, stdout, checked>>

vars == <<cryptoVars, keyVars, authVars, deployVars>>

\* What a step of one part of the program leaves alone.
OnlyCrypto == UNCHANGED <<keyVars, authVars, deployVars>>
OnlyKeys == UNCHANGED <<cryptoVars, authVars, deployVars>>
OnlyAuth == UNCHANGED <<cryptoVars, keyVars, deployVars>>
OnlyDeploy == UNCHANGED <<cryptoVars, keyVars, authVars>>

-----------------------------------------------------------------------------
(* crypto.ts: constants *)

IV_LENGTH == 12
SALT_LENGTH == 16
\* AES-GCM appends a 128-bit authentication tag to the ciphertext.
TAG_LENGTH == 16

\* Width of a byte.
ByteMod == 256

-----------------------------------------------------------------------------
(* Bounds of the model *)

\* crypto.getRandomValues is drawn from arrays filled with one of the bytes
\* 0 .. MaxFill (salt) and 0 .. MaxFill (iv), chosen independently.
MaxFill == 1

\* addAPIKey is called at most MaxKeys times.
MaxKeys == 1


-----------------------------------------------------------------------------
(* Helpers on sequences *)

RECURSIVE Sum(_)
Sum(s) == IF s = <<>> THEN 0 ELSE Head(s) + Sum(Tail(s))

Fill(n, b) == [i \in 1..n |-> b]

-----------------------------------------------------------------------------
(* TextEncoder / TextDecoder (UTF-8), for BMP code units outside the       *)
(* surrogate range.                                                        *)

ReplacementChar == 65533

EncodeUnit(c) ==
    IF c < 128 THEN <<c>>
    ELSE IF c < 2048 THEN <<192 + (c \div 64), 128 + (c % 64)>>
    ELSE <<224 + (c \div 4096), 128 + ((c \div 64) % 64), 128 + (c % 64)>>

RECURSIVE TextEncode(_)
TextEncode(s) ==
    IF s = <<>> THEN <<>> ELSE EncodeUnit(Head(s)) \o TextEncode(Tail(s))

IsCont(b) == b >= 128 /\ b < 192

RECURSIVE TextDecode(_)
TextDecode(b) ==
    IF b = <<>> THEN <<>>
    ELSE IF b[1] < 128 THEN <<b[1]>> \o TextDecode(Tail(b))
    ELSE IF b[1] >= 194 /\ b[1] < 224 /\ Len(b) >= 2 /\ IsCont(b[2])
        THEN <<(b[1] - 192) * 64 + (b[2] - 128)>> \o TextDecode(SubSeq(b, 3, Len(b)))
    ELSE IF b[1] >= 224 /\ b[1] < 240 /\ Len(b) >= 3 /\ IsCont(b[2]) /\ IsCont(b[3])
            /\ (b[1] - 224) * 4096 + (b[2] - 128) * 64 + (b[3] - 128) >= 2048
        THEN <<(b[1] - 224) * 4096 + (b[2] - 128) * 64 + (b[3] - 128)>>
                 \o TextDecode(SubSeq(b, 4, Len(b)))
    ELSE <<ReplacementChar>> \o TextDecode(Tail(b))

-----------------------------------------------------------------------------
(* btoa(String.fromCharCode(...bytes)) and                                 *)
(* atob(s).split('').map(c => c.charCodeAt(0))                             *)

PadChar == 61

B64Char(n) ==
    IF n < 26 THEN 65 + n
    ELSE IF n < 52 THEN 97 + (n - 26)
    ELSE IF n < 62 THEN 48 + (n - 52)
    ELSE IF n = 62 THEN 43
    ELSE 47

\* The sextet a base64 character stands for, or -1.
B64Val(c) ==
    IF c >= 65 /\ c <= 90 THEN c - 65
    ELSE IF c >= 97 /\ c <= 122 THEN c - 97 + 26
    ELSE IF c >= 48 /\ c <= 57 THEN c - 48 + 52
    ELSE IF c = 43 THEN 62
    ELSE IF c = 47 THEN 63
    ELSE -1

RECURSIVE btoa(_)
btoa(b) ==
    IF Len(b) = 0 THEN <<>>
    ELSE IF Len(b) = 1 THEN
        <<B64Char(b[1] \div 4), B64Char((b[1] % 4) * 16), PadChar, PadChar>>
    ELSE IF Len(b) = 2 THEN
        <<B64Char(b[1] \div 4), B64Char((b[1] % 4) * 16 + (b[2] \div 16)),
          B64Char((b[2] % 16) * 4), PadChar>>
    ELSE
        <<B64Char(b[1] \div 4), B64Char((b[1] % 4) * 16 + (b[2] \div 16)),
          B64Char((b[2] % 16) * 4 + (b[3] \div 64)), B64Char(b[3] % 64)>>
            \o btoa(SubSeq(b, 4, Len(b)))

IsAsciiSpace(c) == c \in {9, 10, 12, 13, 32}

RECURSIVE StripSpace(_)
StripSpace(s) ==
    IF s = <<>> THEN <<>>
    ELSE IF IsAsciiSpace(Head(s)) THEN StripSpace(Tail(s))
    ELSE <<Head(s)>> \o StripSpace(Tail(s))

\* The forgiving-base64 step that removes one or two trailing '=' from data
\* whose length is a multiple of four.
StripPad(s) ==
    IF Len(s) > 0 /\ Len(s) % 4 = 0 /\ s[Len(s)] = PadChar
    THEN IF s[Len(s) - 1] = PadChar THEN SubSeq(s, 1, Len(s) - 2)
         ELSE SubSeq(s, 1, Len(s) - 1)
    ELSE s

RECURSIVE DecodeSextets(_)
DecodeSextets(v) ==
    IF Len(v) < 2 THEN <<>>
    ELSE IF Len(v) = 2 THEN <<v[1] * 4 + (v[2] \div 16)>>
    ELSE IF Len(v) = 3 THEN
        <<v[1] * 4 + (v[2] \div 16), (v[2] % 16) * 16 + (v[3] \div 4)>>
    ELSE
        <<v[1] * 4 + (v[2] \div 16), (v[2] % 16) * 16 + (v[3] \div 4),
          (v[3] % 4) * 64 + v[4]>> \o DecodeSextets(SubSeq(v, 5, Len(v)))

\* atob: [ok |-> TRUE, bytes |-> ...] or the InvalidCharacterError it throws.
atob(s) ==
    LET d == StripPad(StripSpace(s))
    IN  IF Len(d) % 4 = 1 \/ \E i \in 1..Len(d) : B64Val(d[i]) = -1
        THEN [ok |-> FALSE, error |-> "InvalidCharacterError"]
        ELSE [ok |-> TRUE, bytes |-> DecodeSextets([i \in 1..Len(d) |-> B64Val(d[i])])]

-----------------------------------------------------------------------------
(* Web Crypto, idealised.                                                  *)
(*                                                                         *)
(* PBKDF2 is collision free: the derived CryptoKey is determined by, and   *)
(* determines, the password bytes and the salt bytes.  AES-GCM is a keyed  *)
(* stream with a tag over key, iv and plaintext; decryption recomputes the *)
(* tag and throws OperationError when it differs.                          *)

\* crypto.ts deriveKey: importKey(raw password bytes) then PBKDF2 with the
\* salt argument.
deriveKey(password, salt) == [pw |-> TextEncode(password), salt |-> salt]

KeyNum(key) ==
    Sum(key.pw) * 31 + Len(key.pw) * 3 + Sum(key.salt) * 17 + Len(key.salt) * 7

GcmTag(key, iv, pt) ==
    [j \in 1..TAG_LENGTH |->
        (KeyNum(key) * j + Sum(iv) * 5 + Len(iv) + Sum(pt) + Len(pt) * 11 + j) % ByteMod]

\* crypto.subtle.encrypt({name: 'AES-GCM', iv}, key, data)
GcmEncrypt(key, iv, pt) ==
    [i \in 1..Len(pt) |-> (pt[i] + KeyNum(key) + Sum(iv) + i) % ByteMod]
        \o GcmTag(key, iv, pt)

\* crypto.subtle.decrypt({name: 'AES-GCM', iv}, key, data)
GcmDecrypt(key, iv, ct) ==
    IF Len(ct) < TAG_LENGTH THEN [ok |-> FALSE, error |-> "OperationError"]
    ELSE LET n  == Len(ct) - TAG_LENGTH
             pt == [i \in 1..n |-> (ct[i] - KeyNum(key) - Sum(iv) - i) % ByteMod]
         IN  IF GcmTag(key, iv, pt) = SubSeq(ct, n + 1, Len(ct))
             THEN [ok |-> TRUE, bytes |-> pt]
             ELSE [ok |-> FALSE, error |-> "OperationError"]

-----------------------------------------------------------------------------
(* crypto.ts: encryptData and decryptData *)

\* encryptData(data, password); salt and iv are what getRandomValues drew.
encryptData(data, password, salt, iv) ==
    LET key       == deriveKey(password, salt)
        encrypted == GcmEncrypt(key, iv, TextEncode(data))
    IN  [encrypted |-> btoa(encrypted), iv |-> btoa(iv), salt |-> btoa(salt)]

\* const key = await deriveKey(password, salt) in encryptData.
encryptKey(password, salt) == deriveKey(password, salt)

\* No key derived (yet, or because decoding the record threw first).
NoKey == [pw |-> <<>>, salt |-> <<>>]

\* const key = await deriveKey(password, iv) in decryptData, reached once
\* the three atob calls before it returned.
decryptKey(encryptedData, password) ==
    LET salt      == atob(encryptedData.salt)
        iv        == atob(encryptedData.iv)
        encrypted == atob(encryptedData.encrypted)
    IN  IF salt.ok /\ iv.ok /\ encrypted.ok
        THEN deriveKey(password, iv.bytes)
        ELSE NoKey

DecryptErrorMessage == "Failed to decrypt data. Check your password."

\* A try block that derives the key from the record's salt.
decryptTry_salt(encryptedData, password) ==
    LET salt      == atob(encryptedData.salt)
        iv        == atob(encryptedData.iv)
        encrypted == atob(encryptedData.encrypted)
    IN  IF ~salt.ok THEN [ok |-> FALSE, error |-> salt.error]
        ELSE IF ~iv.ok THEN [ok |-> FALSE, error |-> iv.error]
        ELSE IF ~encrypted.ok THEN [ok |-> FALSE, error |-> encrypted.error]
        ELSE LET key       == deriveKey(password, salt.bytes)
                 decrypted == GcmDecrypt(key, iv.bytes, encrypted.bytes)
             IN  IF ~decrypted.ok THEN [ok |-> FALSE, error |-> decrypted.error]
                 ELSE [ok |-> TRUE, value |-> TextDecode(decrypted.bytes)]

\* The body of decryptData's try block: the decoded string, or the error
\* that the first failing step throws.
decryptTry(encryptedData, password) ==
    LET salt      == atob(encryptedData.salt)
        iv        == atob(encryptedData.iv)
        encrypted == atob(encryptedData.encrypted)
    IN  IF ~salt.ok THEN [ok |-> FALSE, error |-> salt.error]
        ELSE IF ~iv.ok THEN [ok |-> FALSE, error |-> iv.error]
        ELSE IF ~encrypted.ok THEN [ok |-> FALSE, error |-> encrypted.error]
        ELSE LET key       == deriveKey(password, iv.bytes)
                 decrypted == GcmDecrypt(key, iv.bytes, encrypted.bytes)
             IN  IF ~decrypted.ok THEN [ok |-> FALSE, error |-> decrypted.error]
                 ELSE [ok |-> TRUE, value |-> TextDecode(decrypted.bytes)]

\* A decryptData whose catch block lets the caught error through.
decryptData_rethrow(encryptedData, password) ==
    LET r == decryptTry(encryptedData, password)
    IN  IF r.ok THEN [kind |-> "string", value |-> r.value]
        ELSE [kind |-> "error", message |-> r.error]

\* decryptData(encryptedData, password): resolves to a string or rejects with
\* the one Error the catch block builds.
decryptData(encryptedData, password) ==
    LET r == decryptTry(encryptedData, password)
    IN  IF r.ok THEN [kind |-> "string", value |-> r.value]
        ELSE [kind |-> "error", message |-> DecryptErrorMessage]

-----------------------------------------------------------------------------
(* crypto.ts on its own: encryptData, then decryptData of what it returned *)
(* (or of a record altered in storage), under any pair of passwords.       *)

\* "", "sk" and "é" (a two-byte UTF-8 character)
DataSet == {<<>>, <<115, 107>>, <<233>>}

\* "p", "q" and "pq"
PasswordSet == {<<112>>, <<113>>, <<112, 113>>}

RandomSalts == {Fill(SALT_LENGTH, b) : b \in 0..MaxFill}
RandomIVs == {Fill(IV_LENGTH, b) : b \in 0..MaxFill}

NoRecord == [encrypted |-> <<>>, iv |-> <<>>, salt |-> <<>>]
NoResult == [kind |-> "none"]

\* Ways a stored record can differ from what encryptData returned.
TamperKinds == {"badchar_salt", "badchar_iv", "badchar_encrypted",
                "truncate_encrypted", "flip_encrypted"}

\* '!' is not a base64 character.
BadChar == 33

Tampered(rec, kind) ==
    CASE kind = "badchar_salt" -> [rec EXCEPT !.salt = Append(@, BadChar)]
      [] kind = "badchar_iv" -> [rec EXCEPT !.iv = Append(@, BadChar)]
      [] kind = "badchar_encrypted" -> [rec EXCEPT !.encrypted = Append(@, BadChar)]
      [] kind = "truncate_encrypted" ->
            [rec EXCEPT !.encrypted = SubSeq(@, 1, Len(@) - 4)]
      [] kind = "flip_encrypted" ->
            [rec EXCEPT !.encrypted[1] = IF @ = 65 THEN 66 ELSE 65]

\* The values the crypto.ts variables keep while another part runs.
CryptoIdle ==
    /\ cData = <<>>
    /\ cPw = <<>>
    /\ cRecord = NoRecord
    /\ cTamper = "unset"
    /\ cDecPw = <<>>
    /\ cResult = NoResult
    /\ cEncKey = NoKey
    /\ cDecKey = NoKey

CryptoInit ==
    /\ cData \in DataSet
    /\ cPw \in PasswordSet
    /\ cRecord = NoRecord
    /\ cTamper = "unset"
    /\ cDecPw = <<>>
    /\ cResult = NoResult
    /\ cEncKey = NoKey
    /\ cDecKey = NoKey

CryptoEncrypt ==
    \E d \in DataSet, p \in PasswordSet, salt \in RandomSalts, iv \in RandomIVs :
        /\ cData' = d
        /\ cPw' = p
        /\ cRecord' = encryptData(d, p, salt, iv)
        /\ cEncKey' = encryptKey(p, salt)
        /\ cTamper' = "none"
        /\ cResult' = NoResult
        /\ cDecKey' = NoKey
        /\ UNCHANGED cDecPw
        /\ OnlyCrypto

CryptoTamper ==
    \E kind \in TamperKinds :
        /\ cTamper = "none"
        /\ cRecord' = Tampered(cRecord, kind)
        /\ cTamper' = kind
        /\ cResult' = NoResult
        /\ cDecKey' = NoKey
        /\ UNCHANGED <<cData, cPw, cDecPw, cEncKey>>
        /\ OnlyCrypto

CryptoDecrypt ==
    \E q \in PasswordSet :
        /\ cTamper # "unset"
        /\ cDecPw' = q
        /\ cResult' = decryptData(cRecord, q)
        /\ cDecKey' = decryptKey(cRecord, q)
        /\ UNCHANGED <<cData, cPw, cRecord, cTamper, cEncKey>>
        /\ OnlyCrypto

-----------------------------------------------------------------------------
(* api-keys.ts and useAPIKeys: data *)

STORAGE_KEY == "gapalytics_api_keys"
QUERIES_STORAGE_KEY == "gapalytics_multi_queries"

NoUser == "null"
Users == {"A", "B"}

\* The two components that call useAPIKeys(); each call has its own state.
Instances == {"manager", "research"}

\* localStorage slots: `${STORAGE_KEY}_${user.id}` and
\* `${QUERIES_STORAGE_KEY}_${user.id}`.
Slot(prefix, uid) == <<prefix, uid>>
Slots == {Slot(p, u) : p \in {STORAGE_KEY, QUERIES_STORAGE_KEY}, u \in Users}

\* getItem returns null for a slot never written.
Absent == [present |-> FALSE, doc |-> <<>>]

\* "k1", "k2", "gpt-4", "https://x", "sk" and a mask of bullets, as code units
Str_k1 == <<107, 49>>
Str_k2 == <<107, 50>>
Str_gpt4 == <<103, 112, 116, 45, 52>>
Str_url == <<104, 116, 116, 112, 115, 58, 47, 47, 120>>
Str_sk == <<115, 107>>
Str_mask == <<8226, 8226>>

\* APIKeyFormData as APIKeyManager's form yields it (apiKeySchema; the
\* optional fields default to ''): what the user submits for a new key ...
AddForms ==
    { [name |-> Str_k1, provider |-> "openai", apiKey |-> Str_sk,
       model |-> Str_gpt4, endpoint |-> <<>>, organization |-> <<>>] }

\* ... and for a key being edited (handleEdit puts a mask in apiKey).
EditForms ==
    { [name |-> Str_k2, provider |-> "custom", apiKey |-> Str_mask,
       model |-> <<>>, endpoint |-> Str_url, organization |-> <<>>] }

\* What the user types into APIKeyManager's password field: '' (nothing) or
\* the encryption password "p".
ManagerPasswords == {<<>>, <<112>>}

\* What the user types into MultiAgentResearch's password field: '', the
\* encryption password "p", or another one, "q".
ResearchPasswords == {<<>>, <<112>>, <<113>>}

\* crypto.getRandomValues never repeats: the n-th addAPIKey call draws the
\* salt and the iv filled with byte n.
DrawnSalt(n) == Fill(SALT_LENGTH, n % ByteMod)
DrawnIV(n) == Fill(IV_LENGTH, n % ByteMod)

APIKeyFields == {"id", "name", "provider", "encryptedKey", "isActive",
                 "createdAt", "lastUsed", "usageCount", "metadata"}

\* An optional property is <<>> when undefined and <<v>> when set.
Undefined == <<>>

-----------------------------------------------------------------------------
(* JSON.stringify / JSON.parse of APIKey[]: a property whose value is      *)
(* undefined is left out of the text and is undefined again after parsing. *)

StringifyKey(k) ==
    IF k.lastUsed = Undefined
    THEN [f \in APIKeyFields \ {"lastUsed"} |-> k[f]]
    ELSE [f \in APIKeyFields |-> IF f = "lastUsed" THEN k.lastUsed[1] ELSE k[f]]

ParseKey(o) ==
    [f \in APIKeyFields |->
        IF f = "lastUsed"
        THEN (IF "lastUsed" \in DOMAIN o THEN <<o["lastUsed"]>> ELSE Undefined)
        ELSE o[f]]

JSONstringify(list) == [i \in 1..Len(list) |-> StringifyKey(list[i])]
JSONparse(doc) == [i \in 1..Len(doc) |-> ParseKey(doc[i])]

\* MultiAgentQuery[] has no property that is ever undefined except
\* completedAt, which is kept as an optional like lastUsed.
QueryFields == {"id", "query", "selectedAgents", "status", "results",
                "createdAt", "completedAt"}

StringifyQuery(q) ==
    IF q.completedAt = Undefined
    THEN [f \in QueryFields \ {"completedAt"} |-> q[f]]
    ELSE [f \in QueryFields |-> IF f = "completedAt" THEN q.completedAt[1] ELSE q[f]]

ParseQuery(o) ==
    [f \in QueryFields |->
        IF f = "completedAt"
        THEN (IF "completedAt" \in DOMAIN o THEN <<o["completedAt"]>> ELSE Undefined)
        ELSE o[f]]

JSONstringifyQueries(list) == [i \in 1..Len(list) |-> StringifyQuery(list[i])]
JSONparseQueries(doc) == [i \in 1..Len(doc) |-> ParseQuery(doc[i])]

-----------------------------------------------------------------------------
(* useAPIKeys: the hook *)

\* The load effect of one hook instance, run for user u: the state it leaves,
\* given the state st it found.
LoadedKeys(st, u, store) ==
    IF u # NoUser /\ store[Slot(STORAGE_KEY, u)].present
    THEN JSONparse(store[Slot(STORAGE_KEY, u)].doc)
    ELSE st

LoadedQueries(st, u, store) ==
    IF u # NoUser /\ store[Slot(QUERIES_STORAGE_KEY, u)].present
    THEN JSONparseQueries(store[Slot(QUERIES_STORAGE_KEY, u)].doc)
    ELSE st

\* saveApiKeys(keys) of the render in which the signed-in user was u:
\* the store and the apiKeys state it leaves.
SavedStore(u, keys, store) ==
    IF u # NoUser
    THEN [store EXCEPT ![Slot(STORAGE_KEY, u)] =
              [present |-> TRUE, doc |-> JSONstringify(keys)]]
    ELSE store

SavedKeys(u, inst, keys, state) ==
    IF u # NoUser THEN [state EXCEPT ![inst] = keys] ELSE state

\* The record addAPIKey builds with no encryption step.
NewAPIKey_plain(formData, encryptedKey, id, now) ==
    [id |-> id, name |-> formData.name, provider |-> formData.provider,
     encryptedKey |-> [encrypted |-> formData.apiKey, iv |-> <<>>, salt |-> <<>>],
     isActive |-> TRUE, createdAt |-> now, lastUsed |-> Undefined, usageCount |-> 0,
     metadata |-> [model |-> formData.model, endpoint |-> formData.endpoint,
                   organization |-> formData.organization]]

\* The record addAPIKey builds (newKey).
NewAPIKey(formData, encryptedKey, id, now) ==
    [id |-> id, name |-> formData.name, provider |-> formData.provider,
     encryptedKey |-> encryptedKey,
     isActive |-> TRUE, createdAt |-> now, lastUsed |-> Undefined, usageCount |-> 0,
     metadata |-> [model |-> formData.model, endpoint |-> formData.endpoint,
                   organization |-> formData.organization]]

HasId(list, id) == \E i \in 1..Len(list) : list[i].id = id

\* apiKeys.find(k => k.id === keyId), given that one exists
FindKey(list, id) == list[CHOOSE i \in 1..Len(list) : list[i].id = id
                                    /\ \A j \in 1..(i - 1) : list[j].id # id]

RECURSIVE Filter(_, _)
\* list.filter(k => k.id !== keyId)
Filter(list, id) ==
    IF list = <<>> THEN <<>>
    ELSE IF Head(list).id = id THEN Filter(Tail(list), id)
    ELSE <<Head(list)>> \o Filter(Tail(list), id)

\* No addAPIKey call has returned yet.
NoAdd == [n |-> 0, success |-> FALSE, user |-> NoUser]

\* A decryptAPIKey that records the use before it decrypts.
decryptAPIKey_countfirst(keys, keyId, pw, now) ==
    IF ~HasId(keys, keyId)
    THEN [value |-> <<>>, saved |-> FALSE, keys |-> keys]
    ELSE LET r == decryptData(FindKey(keys, keyId).encryptedKey, pw)
         IN  [value |-> IF r.kind = "error" THEN <<>> ELSE <<r.value>>,
              saved |-> TRUE,
              keys |-> [i \in 1..Len(keys) |->
                          IF keys[i].id = keyId
                          THEN [keys[i] EXCEPT !.lastUsed = <<now>>,
                                               !.usageCount = @ + 1]
                          ELSE keys[i]]]

\* decryptAPIKey(keyId, password) in a render whose apiKeys state was `keys`:
\* what it returns (<<>> for null, else <<string>>), whether it reached
\* saveApiKeys, and the list it passed to it.
decryptAPIKey(keys, keyId, pw, now) ==
    IF ~HasId(keys, keyId)
    THEN [value |-> <<>>, saved |-> FALSE, keys |-> keys]
    ELSE LET r == decryptData(FindKey(keys, keyId).encryptedKey, pw)
         IN  IF r.kind = "error"
             THEN [value |-> <<>>, saved |-> FALSE, keys |-> keys]
             ELSE [value |-> <<r.value>>, saved |-> TRUE,
                   keys |-> [i \in 1..Len(keys) |->
                               IF keys[i].id = keyId
                               THEN [keys[i] EXCEPT !.lastUsed = <<now>>,
                                                    !.usageCount = @ + 1]
                               ELSE keys[i]]]

-----------------------------------------------------------------------------
(* useAPIKeys and its two callers: steps *)

HsIdle == [pc |-> "idle", agents |-> <<>>, pw |-> <<>>, i |-> 1, valid |-> <<>>,
           keys |-> <<>>, user |-> NoUser]

KeysIdle ==
    /\ user = NoUser
    /\ subtleAvailable = TRUE
    /\ localStorage = [s \in Slots |-> Absent]
    /\ apiKeys = [i \in Instances |-> <<>>]
    /\ queries = [i \in Instances |-> <<>>]
    /\ pendingAdds = {}
    /\ lastAdd = NoAdd
    /\ nextId = 0
    /\ clock = 0
    /\ toast = "none"
    /\ selectedAgents = <<>>
    /\ showPasswordInput = FALSE
    /\ hs = HsIdle

\* Both components mounted, nobody signed in yet, nothing stored; the page is
\* served from a secure context or not.
KeysInit ==
    /\ user = NoUser
    /\ subtleAvailable \in BOOLEAN
    /\ localStorage = [s \in Slots |-> Absent]
    /\ apiKeys = [i \in Instances |-> <<>>]
    /\ queries = [i \in Instances |-> <<>>]
    /\ pendingAdds = {}
    /\ lastAdd = NoAdd
    /\ nextId = 0
    /\ clock = 0
    /\ toast = "none"
    /\ selectedAgents = <<>>
    /\ showPasswordInput = FALSE
    /\ hs = HsIdle

\* APIKeyManager's isLoading: true from handleSubmit's start to its finally
\* block. The submit button is disabled meanwhile, and the dialog it sits in
\* is modal, so the component starts nothing else until the call returns.
ManagerIsLoading == pendingAdds # {}

\* AuthProvider sets another user (sign-in, sign-out, session change); every
\* mounted useAPIKeys instance then runs its load effect.
SetUser(U) ==
    \E u \in U \cup {NoUser} :
        /\ u # user
        /\ user' = u
        /\ apiKeys' = [i \in Instances |-> LoadedKeys(apiKeys[i], u, localStorage)]
        /\ queries' = [i \in Instances |-> LoadedQueries(queries[i], u, localStorage)]
        /\ UNCHANGED <<subtleAvailable, localStorage, pendingAdds, lastAdd, nextId,
                       clock, toast, selectedAgents,
                       showPasswordInput, hs>>
        /\ OnlyKeys

\* A component is mounted afresh (tab switch, page reload) while none of its
\* calls is in flight: useState's initial values, then the load effect.
Remount ==
    \E inst \in Instances :
        /\ inst = "manager" => ~ManagerIsLoading
        /\ inst = "research" => hs.pc = "idle"
        /\ apiKeys' = [apiKeys EXCEPT ![inst] = LoadedKeys(<<>>, user, localStorage)]
        /\ queries' = [queries EXCEPT ![inst] = LoadedQueries(<<>>, user, localStorage)]
        /\ IF inst = "research"
           THEN /\ selectedAgents' = <<>>
                /\ showPasswordInput' = FALSE
           ELSE UNCHANGED <<selectedAgents, showPasswordInput>>
        /\ UNCHANGED <<user, subtleAvailable, localStorage, pendingAdds, lastAdd,
                       nextId, clock, toast, hs>>
        /\ OnlyKeys

\* APIKeyManager.handleSubmit with no key being edited: without a password it
\* only toasts; otherwise it calls addAPIKey, which runs up to its
\* await encryptData(...) with the apiKeys and saveApiKeys of this render.
ManagerSubmitAdd ==
    \E formData \in AddForms, pw \in ManagerPasswords :
        /\ nextId < MaxKeys
        /\ ~ManagerIsLoading
        /\ IF pw = <<>>
           THEN /\ toast' = "Password Required"
                /\ UNCHANGED <<pendingAdds, nextId>>
           ELSE /\ pendingAdds' = pendingAdds \cup
                      {[n |-> nextId + 1, formData |-> formData, pw |-> pw,
                        keys |-> apiKeys["manager"], user |-> user]}
                /\ nextId' = nextId + 1
                /\ UNCHANGED toast
        /\ UNCHANGED <<user, subtleAvailable, localStorage, apiKeys, queries, lastAdd,
                       clock, selectedAgents, showPasswordInput, hs>>
        /\ OnlyKeys

\* addAPIKey after its await: encryptData resolved (or threw, where
\* crypto.subtle is missing); the rest of the try block, or the catch block.
\* generateSecureId never repeats: the n-th call draws id n.
AddFinish ==
    \E c \in pendingAdds :
        /\ pendingAdds' = pendingAdds \ {c}
        /\ IF subtleAvailable
           THEN LET newKey == NewAPIKey(c.formData,
                                        encryptData(c.formData.apiKey, c.pw,
                                                    DrawnSalt(c.n), DrawnIV(c.n)),
                                        c.n, clock)
                    updatedKeys == Append(c.keys, newKey)
                IN  /\ localStorage' = SavedStore(c.user, updatedKeys, localStorage)
                    /\ apiKeys' = SavedKeys(c.user, "manager", updatedKeys, apiKeys)
                    /\ clock' = clock + 1
                    /\ toast' = "API Key Added"
                    /\ lastAdd' = [n |-> c.n, success |-> TRUE, user |-> c.user]
           ELSE /\ toast' = "Failed to Add API Key"
                /\ lastAdd' = [n |-> c.n, success |-> FALSE, user |-> c.user]
                /\ UNCHANGED <<localStorage, apiKeys, clock>>
        /\ UNCHANGED <<user, subtleAvailable, queries, nextId, selectedAgents,
                       showPasswordInput, hs>>
        /\ OnlyKeys

\* APIKeyManager.handleSubmit while editing a listed key: without a password
\* (the field is hidden while editing, the state may still hold one typed
\* before) it only toasts; otherwise updateAPIKey with the form's name,
\* provider and metadata.
ManagerSubmitEdit ==
    \E k \in 1..Len(apiKeys["manager"]), formData \in EditForms, pw \in ManagerPasswords :
        LET keyId == apiKeys["manager"][k].id
            updatedKeys ==
                [i \in 1..Len(apiKeys["manager"]) |->
                    IF apiKeys["manager"][i].id = keyId
                    THEN [apiKeys["manager"][i] EXCEPT
                             !.name = formData.name,
                             !.provider = formData.provider,
                             !.metadata = [model |-> formData.model,
                                           endpoint |-> formData.endpoint,
                                           organization |-> formData.organization]]
                    ELSE apiKeys["manager"][i]]
        IN  /\ ~ManagerIsLoading
            /\ IF pw = <<>>
               THEN /\ toast' = "Password Required"
                    /\ UNCHANGED <<localStorage, apiKeys>>
               ELSE /\ localStorage' = SavedStore(user, updatedKeys, localStorage)
                    /\ apiKeys' = SavedKeys(user, "manager", updatedKeys, apiKeys)
                    /\ toast' = "API Key Updated"
            /\ UNCHANGED <<user, subtleAvailable, queries, pendingAdds, lastAdd, nextId,
                           clock, selectedAgents, showPasswordInput,
                           hs>>
            /\ OnlyKeys

\* APIKeyManager.handleDelete, confirmed: deleteAPIKey.
ManagerDelete ==
    \E k \in 1..Len(apiKeys["manager"]) :
        LET updatedKeys == Filter(apiKeys["manager"], apiKeys["manager"][k].id)
        IN  /\ ~ManagerIsLoading
            /\ localStorage' = SavedStore(user, updatedKeys, localStorage)
            /\ apiKeys' = SavedKeys(user, "manager", updatedKeys, apiKeys)
            /\ toast' = "API Key Deleted"
            /\ UNCHANGED <<user, subtleAvailable, queries, pendingAdds, lastAdd, nextId,
                           clock, selectedAgents, showPasswordInput,
                           hs>>
            /\ OnlyKeys

\* The status button of a listed key: toggleAPIKeyStatus.
ManagerToggle ==
    \E k \in 1..Len(apiKeys["manager"]) :
        LET keyId == apiKeys["manager"][k].id
            updatedKeys ==
                [i \in 1..Len(apiKeys["manager"]) |->
                    IF apiKeys["manager"][i].id = keyId
                    THEN [apiKeys["manager"][i] EXCEPT !.isActive = ~@]
                    ELSE apiKeys["manager"][i]]
        IN  /\ ~ManagerIsLoading
            /\ localStorage' = SavedStore(user, updatedKeys, localStorage)
            /\ apiKeys' = SavedKeys(user, "manager", updatedKeys, apiKeys)
            /\ UNCHANGED <<user, subtleAvailable, queries, pendingAdds, lastAdd, nextId,
                           clock, toast, selectedAgents,
                           showPasswordInput, hs>>
            /\ OnlyKeys

\* The agents MultiAgentResearch offers: apiKeys.filter(key => key.isActive)
ActiveAgentIds == {apiKeys["research"][i].id :
                     i \in {j \in 1..Len(apiKeys["research"]) : apiKeys["research"][j].isActive}}

\* prev.includes(agentId) ? prev.filter(id => id !== agentId) : [...prev, agentId]
RECURSIVE Without(_, _)
Without(ids, id) ==
    IF ids = <<>> THEN <<>>
    ELSE IF Head(ids) = id THEN Without(Tail(ids), id)
    ELSE <<Head(ids)>> \o Without(Tail(ids), id)

Includes(ids, id) == \E i \in 1..Len(ids) : ids[i] = id

\* MultiAgentResearch.handleAgentToggle, from the card of an active agent.
ResearchToggleAgent ==
    \E agentId \in ActiveAgentIds :
        /\ selectedAgents' = IF Includes(selectedAgents, agentId)
                             THEN Without(selectedAgents, agentId)
                             ELSE Append(selectedAgents, agentId)
        /\ UNCHANGED <<user, subtleAvailable, localStorage, apiKeys, queries,
                       pendingAdds, lastAdd, nextId, clock, toast,
                       showPasswordInput, hs>>
        /\ OnlyKeys

\* MultiAgentResearch.handleSubmit up to its first await. The submit button
\* is disabled while no agent is selected. The password field is rendered
\* once showPasswordInput is set, and until then password is ''; pw is what
\* the field holds when the form is submitted. The handler keeps the
\* selectedAgents, password, apiKeys and user of the render it was created in.
SubmitStart ==
    \E pw \in ResearchPasswords :
        /\ hs.pc = "idle"
        /\ selectedAgents # <<>>
        /\ ~showPasswordInput => pw = <<>>
        /\ IF pw = <<>>
           THEN /\ showPasswordInput' = TRUE
                /\ UNCHANGED hs
           ELSE /\ hs' = [pc |-> "validating", agents |-> selectedAgents,
                          pw |-> pw, i |-> 1, valid |-> <<>>,
                          keys |-> apiKeys["research"], user |-> user]
                /\ UNCHANGED showPasswordInput
        /\ UNCHANGED <<user, subtleAvailable, localStorage, apiKeys, queries,
                       pendingAdds, lastAdd, nextId, clock, toast, selectedAgents>>
        /\ OnlyKeys

\* One turn of handleSubmit's validation loop: await decryptAPIKey(agentId,
\* password), then validAgents.push(agentId) if it returned a non-empty string.
SubmitValidate ==
    /\ hs.pc = "validating"
    /\ hs.i <= Len(hs.agents)
    /\ LET r == decryptAPIKey(hs.keys, hs.agents[hs.i], hs.pw, clock)
           truthy == r.value # <<>> /\ r.value[1] # <<>>
       IN  /\ IF r.saved
              THEN /\ localStorage' = SavedStore(hs.user, r.keys, localStorage)
                   /\ apiKeys' = SavedKeys(hs.user, "research", r.keys, apiKeys)
                   /\ clock' = clock + 1
                   /\ UNCHANGED toast
              ELSE /\ toast' = "Decryption Failed"
                   /\ UNCHANGED <<localStorage, apiKeys, clock>>
           /\ hs' = [hs EXCEPT !.i = @ + 1,
                               !.valid = IF truthy THEN Append(@, hs.agents[hs.i]) ELSE @]
    /\ UNCHANGED <<user, subtleAvailable, queries, pendingAdds, lastAdd, nextId,
                   selectedAgents, showPasswordInput>>
    /\ OnlyKeys

\* handleSubmit after the loop: with no valid agent it toasts and returns;
\* otherwise it goes on to createMultiAgentQuery and executeMultiAgentQuery.
SubmitAfterValidation ==
    /\ hs.pc = "validating"
    /\ hs.i > Len(hs.agents)
    /\ IF hs.valid = <<>>
       THEN /\ toast' = "Invalid Password"
            /\ hs' = HsIdle
       ELSE /\ toast' = IF Len(hs.valid) < Len(hs.agents) THEN "Partial Success" ELSE toast
            /\ hs' = [hs EXCEPT !.pc = "creating"]
    /\ UNCHANGED <<user, subtleAvailable, localStorage, apiKeys, queries,
                   pendingAdds, lastAdd, nextId, clock, selectedAgents,
                   showPasswordInput>>
    /\ OnlyKeys

-----------------------------------------------------------------------------
(* The AuthProviders (hooks/useAuth.tsx, and the one with testConnection   *)
(* in pages/Index.tsx)                                                     *)

Providers == {"useAuth", "Index"}
AuthOps == {"signUp", "signIn", "signInWithGoogle"}

\* { error: null }
NoError == [name |-> "null", message |-> ""]

\* Errors a Supabase call returns in { error }, and what it throws.
ReturnedError == [name |-> "AuthApiError", message |-> "Invalid login credentials"]
ThrownError == [name |-> "TypeError", message |-> "Failed to fetch"]

\* The error signUp, signIn and signInWithGoogle build when the connection
\* test fails.
ConnectionError ==
    [name |-> "ConnectionError", message |-> "Unable to connect to authentication service"]

\* How supabase.auth.getSession() can end.
SessionOutcomes == {"session", "nosession", "error", "throw"}

\* How the Supabase call of each operation can end.
CallOutcomes(op) ==
    CASE op = "signUp" -> {"user_nosession", "session", "neither", "error", "throw"}
      [] op = "signIn" -> {"ok", "error", "throw"}
      [] op = "signInWithGoogle" -> {"url", "nourl", "error", "throw"}

SupabaseMethod(op) ==
    CASE op = "signUp" -> "auth.signUp"
      [] op = "signIn" -> "auth.signInWithPassword"
      [] op = "signInWithGoogle" -> "auth.signInWithOAuth"

Failed(outcome) == outcome \in {"error", "throw"}

\* testConnection(): what it returns and the toast it shows, by how
\* getSession ended.
testConnection(outcome) ==
    IF Failed(outcome)
    THEN [isConnected |-> FALSE, toast |-> "Connection Error"]
    ELSE [isConnected |-> TRUE, toast |-> "none"]

\* An operation that goes straight to its Supabase call.
EntryPc_untested(p) == "calling"

\* Where an operation starts: the provider of Index.tsx tests the connection
\* first, the one of useAuth.tsx calls Supabase at once.
EntryPc(p) == IF p = "Index" THEN "testing" ELSE "calling"

\* signUp after its Supabase call ended with `outcome`: how the promise
\* settles, the toast, and whether the browser leaves the page.
signUpResult(outcome) ==
    CASE outcome = "error" ->
            [settled |-> "resolved", error |-> ReturnedError,
             toast |-> "Sign up failed", leaves |-> FALSE]
      [] outcome = "user_nosession" ->
            [settled |-> "resolved", error |-> NoError,
             toast |-> "Account created successfully!", leaves |-> FALSE]
      [] outcome = "session" ->
            [settled |-> "resolved", error |-> NoError,
             toast |-> "Welcome!", leaves |-> FALSE]
      [] outcome = "neither" ->
            [settled |-> "resolved", error |-> NoError,
             toast |-> "none", leaves |-> FALSE]
      [] outcome = "throw" ->
            [settled |-> "resolved", error |-> ThrownError,
             toast |-> "Sign up failed", leaves |-> FALSE]

\* A signIn with no try/catch around its Supabase call.
signInResult_nocatch(outcome) ==
    CASE outcome = "error" ->
            [settled |-> "resolved", error |-> ReturnedError,
             toast |-> "Sign in failed", leaves |-> FALSE]
      [] outcome = "ok" ->
            [settled |-> "resolved", error |-> NoError,
             toast |-> "none", leaves |-> FALSE]
      [] outcome = "throw" ->
            [settled |-> "rejected", error |-> ThrownError,
             toast |-> "none", leaves |-> FALSE]

\* signIn likewise.
signInResult(outcome) ==
    CASE outcome = "error" ->
            [settled |-> "resolved", error |-> ReturnedError,
             toast |-> "Sign in failed", leaves |-> FALSE]
      [] outcome = "ok" ->
            [settled |-> "resolved", error |-> NoError,
             toast |-> "none", leaves |-> FALSE]
      [] outcome = "throw" ->
            [settled |-> "resolved", error |-> ThrownError,
             toast |-> "Sign in failed", leaves |-> FALSE]

\* signInWithGoogle likewise; with data.url it sets window.location.href.
signInWithGoogleResult(outcome) ==
    CASE outcome = "error" ->
            [settled |-> "resolved", error |-> ReturnedError,
             toast |-> "Google sign in failed", leaves |-> FALSE]
      [] outcome = "url" ->
            [settled |-> "resolved", error |-> NoError,
             toast |-> "none", leaves |-> TRUE]
      [] outcome = "nourl" ->
            [settled |-> "resolved", error |-> NoError,
             toast |-> "none", leaves |-> FALSE]
      [] outcome = "throw" ->
            [settled |-> "resolved", error |-> ThrownError,
             toast |-> "Google sign in failed", leaves |-> FALSE]

OpResult(op, outcome) ==
    CASE op = "signUp" -> signUpResult(outcome)
      [] op = "signIn" -> signInResult(outcome)
      [] op = "signInWithGoogle" -> signInWithGoogleResult(outcome)

\* No call in progress. `issued` lists the Supabase methods called so far
\* and `outcomes` how each ended.
CallIdle == [op |-> "none", pc |-> "idle", issued |-> <<>>, outcomes |-> <<>>,
             isConnected |-> FALSE, settled |-> "none", error |-> NoError]

CbIdle == [pc |-> "unmounted", outcome |-> "none"]

AuthIdle ==
    /\ provider = "useAuth"
    /\ path = "/login"
    /\ call = CallIdle
    /\ authToast = "none"
    /\ cb = CbIdle
    /\ status = "loading"
    /\ errorMessage = ""
    /\ homeTimer = FALSE

\* The app is built with one of the two providers; the user is on the login
\* page.
AuthInit ==
    /\ provider \in Providers
    /\ path = "/login"
    /\ call = CallIdle
    /\ authToast = "none"
    /\ cb = CbIdle
    /\ status = "loading"
    /\ errorMessage = ""
    /\ homeTimer = FALSE

CbVars == <<cb, status, errorMessage, homeTimer>>

\* The login or signup page calls signUp, signIn or signInWithGoogle.
AuthStart ==
    \E op \in AuthOps :
        /\ path \in {"/login", "/signup"}
        /\ call.pc \in {"idle", "done"}
        /\ call' = [CallIdle EXCEPT !.op = op, !.pc = EntryPc(provider)]
        /\ UNCHANGED <<provider, path, authToast, CbVars>>
        /\ OnlyAuth

\* await testConnection(), and the isConnected test that follows it.
AuthTestConnection ==
    \E outcome \in SessionOutcomes :
        LET t == testConnection(outcome)
        IN  /\ call.pc = "testing"
            /\ call' = [call EXCEPT
                   !.issued = Append(@, "auth.getSession"),
                   !.outcomes = Append(@, outcome),
                   !.isConnected = t.isConnected,
                   !.pc = IF t.isConnected THEN "calling" ELSE "done",
                   !.settled = IF t.isConnected THEN "none" ELSE "resolved",
                   !.error = IF t.isConnected THEN NoError ELSE ConnectionError]
            /\ authToast' = IF t.toast = "none" THEN authToast ELSE t.toast
            /\ UNCHANGED <<provider, path, CbVars>>
            /\ OnlyAuth

\* The operation's Supabase call and everything after it.
AuthCall ==
    /\ call.pc = "calling"
    /\ \E outcome \in CallOutcomes(call.op) :
        LET r == OpResult(call.op, outcome)
        IN  /\ call' = [call EXCEPT
                   !.issued = Append(@, SupabaseMethod(call.op)),
                   !.outcomes = Append(@, outcome),
                   !.pc = "done",
                   !.settled = r.settled,
                   !.error = r.error]
            /\ authToast' = IF r.toast = "none" THEN authToast ELSE r.toast
            /\ path' = IF r.leaves THEN "external" ELSE path
            /\ UNCHANGED <<provider, CbVars>>
            /\ OnlyAuth

\* The user moves between the pages that offer sign-in and sign-up.
UserNavigates ==
    \E p \in {"/login", "/signup"} :
        /\ path \in {"/", "/login", "/signup"}
        /\ path # p
        /\ call.pc \in {"idle", "done"}
        /\ path' = p
        /\ UNCHANGED <<provider, call, authToast, CbVars>>
        /\ OnlyAuth

-----------------------------------------------------------------------------
(* AuthCallback (components/AuthCallback.tsx) *)

\* The browser arrives on /auth/callback (back from the OAuth consent page,
\* or from the confirmation e-mail): a fresh page, AuthCallback mounts with
\* status 'loading' and its effect starts handleAuthCallback.
CallbackMounts ==
    /\ path \in {"external", "/login", "/signup"}
    /\ call.pc \in {"idle", "done"}
    /\ path' = "/auth/callback"
    /\ call' = CallIdle
    /\ cb' = [pc |-> "awaiting", outcome |-> "none"]
    /\ status' = "loading"
    /\ errorMessage' = ""
    /\ homeTimer' = FALSE
    /\ UNCHANGED <<provider, authToast>>
    /\ OnlyAuth

\* A handleAuthCallback whose catch block sets nothing.
handleAuthCallback_silentcatch(outcome) ==
    CASE outcome = "error" ->
            [status |-> "error", errorMessage |-> ReturnedError.message,
             navigate |-> "none", timer |-> FALSE]
      [] outcome = "session" ->
            [status |-> "success", errorMessage |-> "",
             navigate |-> "none", timer |-> TRUE]
      [] outcome = "nosession" ->
            [status |-> "loading", errorMessage |-> "",
             navigate |-> "/login", timer |-> FALSE]
      [] outcome = "throw" ->
            [status |-> "loading", errorMessage |-> "",
             navigate |-> "none", timer |-> FALSE]

\* handleAuthCallback once getSession has settled: what it sets.
handleAuthCallback(outcome) ==
    CASE outcome = "error" ->
            [status |-> "error", errorMessage |-> ReturnedError.message,
             navigate |-> "none", timer |-> FALSE]
      [] outcome = "session" ->
            [status |-> "success", errorMessage |-> "",
             navigate |-> "none", timer |-> TRUE]
      [] outcome = "nosession" ->
            [status |-> "loading", errorMessage |-> "",
             navigate |-> "/login", timer |-> FALSE]
      [] outcome = "throw" ->
            [status |-> "error", errorMessage |-> "An unexpected error occurred",
             navigate |-> "none", timer |-> FALSE]

CallbackSettles ==
    \E outcome \in SessionOutcomes :
        LET r == handleAuthCallback(outcome)
        IN  /\ cb.pc = "awaiting"
            /\ cb' = [pc |-> "settled", outcome |-> outcome]
            /\ status' = r.status
            /\ errorMessage' = r.errorMessage
            /\ homeTimer' = r.timer
            /\ path' = IF r.navigate = "none" THEN path ELSE r.navigate
            /\ UNCHANGED <<provider, call, authToast>>
            /\ OnlyAuth

\* The two-second timer fires (nothing cancels it): navigate('/').
CallbackTimerFires ==
    /\ homeTimer
    /\ homeTimer' = FALSE
    /\ path' = "/"
    /\ UNCHANGED <<provider, call, authToast, cb, status, errorMessage>>
    /\ OnlyAuth

\* The buttons of the success card (Go to Home) and of the error card
\* (Try Again, Create Account).
CallbackButton ==
    \E target \in {"/", "/login", "/signup"} :
        /\ path = "/auth/callback"
        /\ \/ status = "success" /\ target = "/"
           \/ status = "error" /\ target \in {"/login", "/signup"}
        /\ path' = target
        /\ UNCHANGED <<provider, call, authToast, CbVars>>
        /\ OnlyAuth

AuthNext ==
    \/ AuthStart
    \/ AuthTestConnection
    \/ AuthCall
    \/ UserNavigates
    \/ CallbackMounts
    \/ CallbackSettles
    \/ CallbackTimerFires
    \/ CallbackButton

-----------------------------------------------------------------------------
(* deploy-amplify.sh *)

VarNames == {"VITE_SUPABASE_URL", "VITE_SUPABASE_ANON_KEY"}

\* The checks, in the order the script makes them.
CheckOrder == <<"aws_cli", "aws_login", "env_exists", "env_vars", "build", "dist">>

\* grep -q NAME .env
grepq(name, file, names) == file /\ name \in names

\* A test that is content with either name.
SupabaseVarsMissing_either(file, names) ==
    ~grepq("VITE_SUPABASE_URL", file, names) /\ ~grepq("VITE_SUPABASE_ANON_KEY", file, names)

\* ! grep -q "VITE_SUPABASE_URL" .env || ! grep -q "VITE_SUPABASE_ANON_KEY" .env
SupabaseVarsMissing(file, names) ==
    ~grepq("VITE_SUPABASE_URL", file, names) \/ ~grepq("VITE_SUPABASE_ANON_KEY", file, names)

DeployMachine ==
    /\ awsInstalled \in BOOLEAN
    /\ awsLoggedIn \in BOOLEAN
    /\ envFile \in BOOLEAN
    /\ envNames \in SUBSET VarNames
    /\ distDir \in BOOLEAN

DeployIdle ==
    /\ awsInstalled = FALSE
    /\ awsLoggedIn = FALSE
    /\ envFile = FALSE
    /\ envNames = {}
    /\ distDir = FALSE
    /\ shPc = "aws_cli"
    /\ shStatus = 0
    /\ exitStatus = 0
    /\ stdout = <<>>
    /\ checked = <<>>

\* The script has echoed its banner and is about to make its first check.
DeployInit ==
    /\ DeployMachine
    /\ shPc = "aws_cli"
    /\ shStatus = 0
    /\ exitStatus = 0
    /\ stdout = <<"AWS Amplify Deployment Script">>
    /\ checked = <<>>

Machine == <<awsInstalled, awsLoggedIn, envFile, envNames, distDir>>

\* `exit 1` after echoing msg.
Exit1(msg) ==
    /\ stdout' = Append(stdout, msg)
    /\ shPc' = "exited"
    /\ exitStatus' = 1

\* if ! command -v aws
CheckAwsCli ==
    /\ shPc = "aws_cli"
    /\ checked' = Append(checked, "aws_cli")
    /\ IF ~awsInstalled
       THEN Exit1("AWS CLI is not installed")
       ELSE shPc' = "aws_login" /\ UNCHANGED <<stdout, exitStatus>>
    /\ UNCHANGED <<Machine, shStatus>>
    /\ OnlyDeploy

\* if ! aws sts get-caller-identity
CheckAwsLogin ==
    /\ shPc = "aws_login"
    /\ checked' = Append(checked, "aws_login")
    /\ IF ~awsLoggedIn
       THEN Exit1("You are not logged in to AWS")
       ELSE /\ shPc' = "env_exists"
            /\ stdout' = Append(stdout, "AWS CLI is configured")
            /\ UNCHANGED exitStatus
    /\ UNCHANGED <<Machine, shStatus>>
    /\ OnlyDeploy

\* if [ ! -f .env ]
CheckEnvFile ==
    /\ shPc = "env_exists"
    /\ checked' = Append(checked, "env_exists")
    /\ IF ~envFile
       THEN Exit1(".env file not found")
       ELSE shPc' = "env_vars" /\ UNCHANGED <<stdout, exitStatus>>
    /\ UNCHANGED <<Machine, shStatus>>
    /\ OnlyDeploy

\* if ! grep -q ... || ! grep -q ...
CheckEnvVars ==
    /\ shPc = "env_vars"
    /\ checked' = Append(checked, "env_vars")
    /\ IF SupabaseVarsMissing(envFile, envNames)
       THEN Exit1("Supabase environment variables not found")
       ELSE /\ shPc' = "build"
            /\ stdout' = Append(stdout, "Environment variables found")
            /\ UNCHANGED exitStatus
    /\ UNCHANGED <<Machine, shStatus>>
    /\ OnlyDeploy

\* npm run build: it ends with some status and leaves dist present or not.
RunBuild ==
    \E st \in {0, 1}, dist \in BOOLEAN :
        /\ shPc = "build"
        /\ stdout' = Append(stdout, "Building application...")
        /\ shStatus' = st
        /\ distDir' = dist
        /\ shPc' = "build_status"
        /\ UNCHANGED <<awsInstalled, awsLoggedIn, envFile, envNames, exitStatus, checked>>
        /\ OnlyDeploy

\* if [ $? -ne 0 ]
CheckBuildStatus ==
    /\ shPc = "build_status"
    /\ checked' = Append(checked, "build")
    /\ IF shStatus # 0
       THEN Exit1("Build failed")
       ELSE /\ shPc' = "dist"
            /\ stdout' = Append(stdout, "Build successful")
            /\ UNCHANGED exitStatus
    /\ UNCHANGED <<Machine, shStatus>>
    /\ OnlyDeploy

\* if [ ! -d "dist" ]
CheckDist ==
    /\ shPc = "dist"
    /\ checked' = Append(checked, "dist")
    /\ IF ~distDir
       THEN Exit1("dist directory not found")
       ELSE /\ shPc' = "next_steps"
            /\ stdout' = Append(stdout, "Build artifacts created in dist/ directory")
            /\ UNCHANGED exitStatus
    /\ UNCHANGED <<Machine, shStatus>>
    /\ OnlyDeploy

\* The closing echoes; the script ends with the status of the last one.
PrintNextSteps ==
    /\ shPc = "next_steps"
    /\ stdout' = Append(stdout, "Next Steps:")
    /\ shPc' = "exited"
    /\ exitStatus' = 0
    /\ UNCHANGED <<Machine, shStatus, checked>>
    /\ OnlyDeploy

DeployNext ==
    \/ CheckAwsCli
    \/ CheckAwsLogin
    \/ CheckEnvFile
    \/ CheckEnvVars
    \/ RunBuild
    \/ CheckBuildStatus
    \/ CheckDist
    \/ PrintNextSteps

-----------------------------------------------------------------------------
(* Specifications: one per part of the program *)

CryptoNext == CryptoEncrypt \/ CryptoTamper \/ CryptoDecrypt

InitCrypto == CryptoInit /\ KeysIdle /\ AuthIdle /\ DeployIdle
SpecCrypto == InitCrypto /\ [][CryptoNext]_vars

KeysNext ==
    \/ SetUser(Users)
    \/ Remount
    \/ ManagerSubmitAdd
    \/ AddFinish
    \/ ManagerSubmitEdit
    \/ ManagerDelete
    \/ ManagerToggle
    \/ ResearchToggleAgent
    \/ SubmitStart
    \/ SubmitValidate
    \/ SubmitAfterValidation

InitKeys == KeysInit /\ CryptoIdle /\ AuthIdle /\ DeployIdle
SpecKeys == InitKeys /\ [][KeysNext]_vars

\* AuthNext is defined with the AuthCallback steps.
InitAuth == AuthInit /\ CryptoIdle /\ KeysIdle /\ DeployIdle
SpecAuth == InitAuth /\ [][AuthNext]_vars


\* DeployNext is defined with the script's steps.
InitDeploy == DeployInit /\ CryptoIdle /\ KeysIdle /\ AuthIdle
SpecDeploy == InitDeploy /\ [][DeployNext]_vars
-----------------------------------------------------------------------------
(* Claims about crypto.ts *)

\* C1: round trip. Decrypting, with the password it was encrypted under, the
\* record encryptData returned yields the original plaintext string.
C1_RoundTrip ==
    (cResult # NoResult /\ cTamper = "none" /\ cDecPw = cPw)
        => cResult = [kind |-> "string", value |-> cData]

\* C2: decrypting with a different password never yields a string; it throws
\* the Error 'Failed to decrypt data. Check your password.', and every
\* failure inside decryptData (bad base64, failed authentication) surfaces as
\* that same error.
C2_WrongPasswordThrows ==
    cResult # NoResult =>
        /\ (cDecPw # cPw \/ cTamper # "none")
              => cResult = [kind |-> "error", message |-> DecryptErrorMessage]
        /\ cResult.kind = "error" => cResult.message = DecryptErrorMessage

\* A decryptData call under a password other than the encrypting one has
\* thrown.
C2_Witness ==
    /\ cTamper = "none"
    /\ cDecPw # cPw
    /\ cResult.kind = "error"


\* C11: decryptData derives its key from the password and the record's salt:
\* called on the record encryptData returned, with the same password, it
\* holds the key encryptData derived.
C11_SameKeyFromSalt ==
    (cResult # NoResult /\ cTamper = "none" /\ cDecPw = cPw) =>
        /\ cDecKey = cEncKey
        /\ cDecKey = deriveKey(cDecPw, atob(cRecord.salt).bytes)

-----------------------------------------------------------------------------
(* Claims about useAPIKeys and its callers *)

\* Every EncryptedData that encryptData can return for a submitted key.
EncryptedRange ==
    {encryptData(f.apiKey, p, DrawnSalt(n), DrawnIV(n)) :
        f \in AddForms, p \in ManagerPasswords \ {<<>>}, n \in 1..MaxKeys}

\* The plaintext API keys the user submits.
Secrets == {f.apiKey : f \in AddForms}

\* The free-text values an APIKey record (or its JSON form) carries.
TextValues(k) ==
    {k.name, k.metadata.model, k.metadata.endpoint, k.metadata.organization,
     k.encryptedKey.encrypted, k.encryptedKey.iv, k.encryptedKey.salt}

HoldsNoPlaintext(k) ==
    /\ DOMAIN k \subseteq APIKeyFields
    /\ k.encryptedKey \in EncryptedRange
    /\ TextValues(k) \cap Secrets = {}

KeySlots == {Slot(STORAGE_KEY, u) : u \in Users}

NoPlaintextHeld ==
    /\ \A inst \in Instances : \A i \in 1..Len(apiKeys[inst]) :
          HoldsNoPlaintext(apiKeys[inst][i])
    /\ \A s \in KeySlots : \A i \in 1..Len(localStorage[s].doc) :
          HoldsNoPlaintext(localStorage[s].doc[i])

\* The addAPIKey call c returns in this step.
Returns(c) == c \in pendingAdds /\ c \notin pendingAdds'

FailedAddStoresNothing ==
    \A c \in pendingAdds :
        (Returns(c) /\ ~subtleAvailable) =>
            /\ lastAdd' = [n |-> c.n, success |-> FALSE, user |-> c.user]
            /\ apiKeys' = apiKeys
            /\ localStorage' = localStorage

\* C3: no plaintext API key is ever held in the apiKeys state or in
\* localStorage: each stored record carries the key only as an EncryptedData
\* that encryptData returned, and an addAPIKey call whose encryptData fails
\* stores nothing and returns success: false.
C3_NoPlaintextStored == []NoPlaintextHeld /\ [][FailedAddStoresNothing]_vars

\* A key has been added: it is in the manager's state and in the store.
C3_Witness ==
    /\ lastAdd.success
    /\ Len(apiKeys["manager"]) > 0
    /\ \E s \in KeySlots : Len(localStorage[s].doc) > 0

\* C4: addAPIKey returns success: true (and toasts 'API Key Added') only if
\* the new record is then in the apiKeys state and in localStorage; so not
\* when no user is signed in.
C4_SuccessMeansStored ==
    [][\A c \in pendingAdds :
          (Returns(c) /\ (lastAdd'.success \/ toast' = "API Key Added")) =>
              /\ HasId(apiKeys'["manager"], c.n)
              /\ c.user # NoUser
              /\ HasId(localStorage'[Slot(STORAGE_KEY, c.user)].doc, c.n)]_vars

\* decryptData never resolves, so decryptAPIKey never returns a key:
\* handleSubmit's validation loop finds no valid agent, never reaches
\* createMultiAgentQuery or executeMultiAgentQuery, and no usageCount moves.
DecryptNeverSucceeds ==
    /\ hs.valid = <<>>
    /\ hs.pc # "creating"
    /\ \A inst \in Instances :
          /\ queries[inst] = <<>>
          /\ \A i \in 1..Len(apiKeys[inst]) :
                /\ apiKeys[inst][i].usageCount = 0
                /\ apiKeys[inst][i].lastUsed = Undefined
    /\ \A u \in Users : ~localStorage[Slot(QUERIES_STORAGE_KEY, u)].present

\* The validation loop has called decryptAPIKey with the password the key
\* was encrypted under.
ValidationRanWithRightPassword ==
    /\ hs.pc = "validating"
    /\ hs.i > 1
    /\ hs.pw = <<112>>
    /\ HasId(hs.keys, hs.agents[1])


\* The key the last successful addAPIKey call created belongs to the user
\* that was signed in when the call was made.
OwnedKeyVisibleTo(u) ==
    /\ lastAdd.success
    /\ lastAdd.user # NoUser
    /\ u # lastAdd.user
    /\ u # NoUser
    /\ user = u
    /\ \E inst \in Instances : HasId(apiKeys[inst], lastAdd.n)

OwnedKeyStoredUnder(u) ==
    /\ lastAdd.success
    /\ lastAdd.user # NoUser
    /\ u # lastAdd.user
    /\ HasId(localStorage[Slot(STORAGE_KEY, u)].doc, lastAdd.n)

\* C12: per-user isolation. While another user B is signed in, a key that
\* user A added is in no apiKeys state that useAPIKeys returns, and it is
\* never written under B's storage key.
C12_UserIsolation ==
    \A u \in Users : ~OwnedKeyVisibleTo(u) /\ ~OwnedKeyStoredUnder(u)


\* A stored record with its usage statistics blanked.
WithoutUsage(o) == [ParseKey(o) EXCEPT !.usageCount = 0, !.lastUsed = Undefined]

\* Two stored lists that differ at most in usageCount and lastUsed.
SameButUsage(d, e) ==
    /\ Len(d) = Len(e)
    /\ \A i \in 1..Len(d) : WithoutUsage(d[i]) = WithoutUsage(e[i])

\* The stored key lists show, after the step, all that they showed before
\* it: the same keys in the same order with the same name, provider,
\* ciphertext, isActive and metadata.
StoredWritesKept ==
    \A s \in KeySlots :
        /\ localStorage'[s].present = localStorage[s].present
        /\ SameButUsage(localStorage'[s].doc, localStorage[s].doc)

OnlyUsageOf(id, before, after) ==
    /\ Len(after) = Len(before)
    /\ \A i \in 1..Len(before) :
          IF before[i].id = id
          THEN /\ after[i].usageCount = before[i].usageCount + 1
               /\ after[i].lastUsed # Undefined
               /\ [after[i] EXCEPT !.usageCount = 0, !.lastUsed = Undefined]
                    = [before[i] EXCEPT !.usageCount = 0, !.lastUsed = Undefined]
          ELSE after[i] = before[i]

\* One decryptAPIKey call of the validation loop has returned.
DecryptCallReturns ==
    hs.pc = "validating" /\ hs'.pc = "validating" /\ hs'.i = hs.i + 1

\* What the call that returns leaves, by what it returned (the loop keeps the
\* agent exactly when the call returned a key).
DecryptCallEffect ==
    LET id   == hs.agents[hs.i]
        slot == Slot(STORAGE_KEY, hs.user)
    IN  IF hs'.valid = hs.valid
        THEN apiKeys' = apiKeys /\ localStorage' = localStorage
        ELSE /\ apiKeys'["manager"] = apiKeys["manager"]
             /\ OnlyUsageOf(id, apiKeys["research"], apiKeys'["research"])
             /\ hs.user # NoUser
             /\ \A s \in Slots \ {slot} : localStorage'[s] = localStorage[s]
             /\ OnlyUsageOf(id, JSONparse(localStorage[slot].doc),
                                JSONparse(localStorage'[slot].doc))

\* C14: a decryptAPIKey call that fails (the key id is not in the list, or
\* decryptData throws) returns null and changes neither the apiKeys state nor
\* localStorage; one that succeeds changes only the addressed key's
\* usageCount (by one) and lastUsed. (Every call fails: decryptData throws
\* for each stored record, so the second half has no instance.)
C14_FailureChangesNothing == [][DecryptCallReturns => DecryptCallEffect]_vars

\* A call for a listed key, under the password it was encrypted with, has
\* failed: null returned, 'Decryption Failed' toast, the key's statistics as
\* they were.
C14_Witness ==
    /\ hs.pc = "validating"
    /\ hs.i > 1
    /\ hs.valid = <<>>
    /\ hs.pw = <<112>>
    /\ HasId(hs.keys, hs.agents[1])
    /\ toast = "Decryption Failed"
    /\ \A i \in 1..Len(apiKeys["research"]) : apiKeys["research"][i].usageCount = 0

\* A call for a key id that the list of its render does not hold.
UnknownKeyCall ==
    /\ hs.pc = "validating"
    /\ hs.i > 1
    /\ ~HasId(hs.keys, hs.agents[1])

-----------------------------------------------------------------------------
(* Claims about the AuthProviders and AuthCallback *)

NoCallFailed(c) == \A i \in 1..Len(c.outcomes) : ~Failed(c.outcomes[i])

\* C7: signUp, signIn and signInWithGoogle never reject: whatever way the
\* Supabase calls they issue end (success, returned error, thrown Error), the
\* promise resolves to {error}, and error is null exactly when no Supabase
\* call reported an error or threw.
C7_NeverRejects ==
    /\ call.settled # "rejected"
    /\ call.pc = "done" =>
          /\ call.settled = "resolved"
          /\ (call.error = NoError) <=> NoCallFailed(call)

\* A sign-in whose Supabase call threw has resolved with the thrown error.
C7_Witness ==
    /\ call.pc = "done"
    /\ call.op = "signIn"
    /\ call.outcomes # <<>>
    /\ call.outcomes[Len(call.outcomes)] = "throw"
    /\ call.issued[Len(call.issued)] = "auth.signInWithPassword"
    /\ call.settled = "resolved"
    /\ call.error = ThrownError

\* C8: in the AuthProvider that has testConnection, every operation calls
\* getSession (the connection test) first; the sign-up / sign-in / OAuth call
\* is issued only second and only after the test returned true; when the test
\* returned false no such call is issued and the result is the error named
\* 'ConnectionError'.
C8_ConnectionTestedFirst ==
    provider = "Index" =>
        /\ call.issued # <<>> => call.issued[1] = "auth.getSession"
        /\ call.pc = "done" => call.issued # <<>>
        /\ \A i \in 1..Len(call.issued) :
              call.issued[i] # "auth.getSession" =>
                  /\ i = 2
                  /\ call.isConnected
                  /\ call.issued[i] = SupabaseMethod(call.op)
        /\ (call.pc = "done" /\ ~call.isConnected) =>
              /\ call.issued = <<"auth.getSession">>
              /\ call.settled = "resolved"
              /\ call.error.name = "ConnectionError"

\* A sign-up stopped by a failed connection test.
C8_Witness ==
    /\ provider = "Index"
    /\ call.op = "signUp"
    /\ call.pc = "done"
    /\ ~call.isConnected
    /\ call.error = ConnectionError

C9_StatusOfOutcome ==
    /\ cb.pc \in {"unmounted", "awaiting"} => status = "loading"
    /\ cb.pc = "settled" =>
          /\ (status = "error") <=> (cb.outcome \in {"error", "throw"})
          /\ (status = "success") <=> (cb.outcome = "session")
          /\ (status = "loading") <=> (cb.outcome = "nosession")
    /\ homeTimer => status = "success"

C9_Step ==
    \* status changes only away from 'loading' (or back to it when the page
    \* is loaded anew)
    /\ status' # status => (status = "loading" \/ cb'.pc = "awaiting")
    \* neither error nor session: navigate('/login'), status unchanged
    /\ (cb.pc = "awaiting" /\ cb'.pc = "settled" /\ cb'.outcome = "nosession") =>
          (path' = "/login" /\ status' = "loading")
    \* the timer towards '/' is set only with status 'success'
    /\ (~homeTimer /\ homeTimer') => status' = "success"
    \* only the timer and the Go to Home button lead from the callback to '/'
    /\ (path = "/auth/callback" /\ path' = "/") => status = "success"

\* C9: AuthCallback's status starts as 'loading' and changes at most once per
\* mount: it is 'error' exactly when getSession returned an error or threw,
\* 'success' exactly when it returned a session without error; with neither,
\* the component navigates to '/login' and status stays 'loading'; the
\* navigation to '/' is scheduled only once status is 'success'.
C9_StatusSetOnce == []C9_StatusOfOutcome /\ [][C9_Step]_vars

\* A callback that found a session: status 'success', timer pending.
C9_Witness ==
    /\ cb.pc = "settled"
    /\ cb.outcome = "session"
    /\ status = "success"
    /\ homeTimer
    /\ path = "/auth/callback"

-----------------------------------------------------------------------------
(* Claims about deploy-amplify.sh *)

\* Whether a check passes on the machine as it is.
Passes(check) ==
    CASE check = "aws_cli" -> awsInstalled
      [] check = "aws_login" -> awsLoggedIn
      [] check = "env_exists" -> envFile
      [] check = "env_vars" -> envFile /\ VarNames \subseteq envNames
      [] check = "build" -> shStatus = 0
      [] check = "dist" -> distDir

Printed(msg) == \E i \in 1..Len(stdout) : stdout[i] = msg

\* C10: the checks are made in the fixed order; the script exits with status
\* 1 at the first check that fails, and making a check means every earlier
\* one passed; npm run build starts only after the four checks before it
\* passed; 'Next Steps' is printed only when all six passed.
C10_ChecksInOrder ==
    /\ Len(checked) <= Len(CheckOrder)
    /\ \A i \in 1..Len(checked) : checked[i] = CheckOrder[i]
    /\ \A i \in 1..(Len(checked) - 1) : Passes(checked[i])
    /\ (checked # <<>> /\ ~Passes(checked[Len(checked)])) =>
          (shPc = "exited" /\ exitStatus = 1 /\ ~Printed("Next Steps:"))
    /\ (shPc = "exited" /\ exitStatus = 1) =>
          (checked # <<>> /\ ~Passes(checked[Len(checked)]))
    /\ Printed("Building application...") =>
          \A i \in 1..4 : Len(checked) >= i /\ Passes(CheckOrder[i])
    /\ Printed("Next Steps:") =>
          (checked = CheckOrder /\ \A i \in 1..Len(CheckOrder) : Passes(CheckOrder[i]))

\* A run stopped by the .env check on names: the file names only one of the
\* two variables, and the build was never started.
C10_Witness ==
    /\ shPc = "exited"
    /\ exitStatus = 1
    /\ checked = <<"aws_cli", "aws_login", "env_exists", "env_vars">>
    /\ envNames = {"VITE_SUPABASE_URL"}
    /\ ~Printed("Building application...")

====
